---- MODULE Spec2Model ----
(***************************************************************************)
(* Model of the fast-floats crate (src/src/lib.rs) and of its example      *)
(* consumer (src/examples/sums.rs).                                        *)
(*                                                                         *)
(* The crate wraps f32 / f64 in Fast<F> and routes + - * / % through the   *)
(* core intrinsics fadd_fast, fsub_fast, fmul_fast, fdiv_fast, frem_fast.  *)
(* Floating point numbers are modelled by a scaled-down binary format with *)
(* the structure of IEEE-754: sign, magnitude with a bounded number of     *)
(* significant bits, gradual underflow, signed zeros, infinities and NaN,  *)
(* round-to-nearest-even.  The two widths differ in their exponent range.   *)
(***************************************************************************)
EXTENDS Integers, Sequences, FiniteSets, Bags, TLC

(***************************************************************************)
(* Bounds of the scaled-down float formats.                                *)
(***************************************************************************)
\* significant bits of a magnitude
MantBits == 2
\* largest binary exponent (counted in units) of the narrow format
ExpRange == 1
\* number of fractional bits: one unit is 2^-FracBits
FracBits == 1

RECURSIVE Pow(_, _)
Pow(base, n) == IF n = 0 THEN 1 ELSE base * Pow(base, n - 1)

\* lib.rs:69-72: the two instantiations FF32 = Fast<f32>, FF64 = Fast<f64>
Widths == {32, 64}

Prec(w) == MantBits

\* the wide format (f64) has one more exponent step than the narrow one (f32)
MaxExp(w) == IF w = 32 THEN ExpRange ELSE ExpRange + 1

MaxMag(w) == (Pow(2, Prec(w)) - 1) * Pow(2, MaxExp(w))

\* magnitudes (in units) that the format of width w represents exactly
Mags(w) == { m * Pow(2, e) : m \in 0 .. (Pow(2, Prec(w)) - 1), e \in 0 .. MaxExp(w) }

Fin(s, m) == [k |-> "fin", s |-> s, m |-> m]
Inf(s)    == [k |-> "inf", s |-> s, m |-> 0]
NaN       == [k |-> "nan", s |-> 0, m |-> 0]
PosZero   == Fin(0, 0)
NegZero   == Fin(1, 0)
One       == Fin(0, Pow(2, FracBits))

\* every value ("bit pattern") of the raw type F of width w
Floats(w) == { Fin(s, m) : s \in {0, 1}, m \in Mags(w) }
               \cup { Inf(0), Inf(1), NaN }

IsNaN(a)    == a.k = "nan"
IsInf(a)    == a.k = "inf"
IsFinite(a) == a.k = "fin"
IsZero(a)   == a.k = "fin" /\ a.m = 0
Neg(a)      == IF IsNaN(a) THEN a ELSE [a EXCEPT !.s = 1 - a.s]
Xor(s, t)   == IF s = t THEN 0 ELSE 1

\* signed magnitude of a finite value, in units
Signed(a) == IF a.s = 1 THEN 0 - a.m ELSE a.m
Abs(n)    == IF n < 0 THEN 0 - n ELSE n

\* n / d rounded to the nearest integer, ties to even
RoundNearestEven(n, d) ==
    LET q == n \div d
        r == n % d
    IN  IF 2 * r < d THEN q
        ELSE IF 2 * r > d THEN q + 1
        ELSE IF q % 2 = 0 THEN q ELSE q + 1

\* binary exponent at which the quotient n / d (in units) has Prec(w) bits
ExpOf(w, n, d) ==
    LET big == 2 * Prec(w) + 2 * MaxExp(64) + 2 * FracBits + 2
    IN  CHOOSE e \in 0 .. big :
            /\ n < Pow(2, Prec(w) + e) * d
            /\ \A f \in 0 .. (e - 1) : n >= Pow(2, Prec(w) + f) * d

\* the value of sign s and exact magnitude n / d units, rounded to width w
Round(w, s, n, d) ==
    LET e   == ExpOf(w, n, d)
        mag == RoundNearestEven(n, d * Pow(2, e)) * Pow(2, e)
    IN  IF mag > MaxMag(w) THEN Inf(s) ELSE Fin(s, mag)

(***************************************************************************)
(* The strict (IEEE-754) operators of the raw type: a + b, a - b, a * b,   *)
(* a / b, a % b on f32 / f64.                                              *)
(***************************************************************************)
StrictAdd(w, a, b) ==
    IF IsNaN(a) \/ IsNaN(b) THEN NaN
    ELSE IF IsInf(a) /\ IsInf(b) THEN (IF a.s = b.s THEN a ELSE NaN)
    ELSE IF IsInf(a) THEN a
    ELSE IF IsInf(b) THEN b
    ELSE LET n == Signed(a) + Signed(b)
         IN  IF n = 0
             THEN (IF a.s = 1 /\ b.s = 1 THEN NegZero ELSE PosZero)
             ELSE Round(w, IF n < 0 THEN 1 ELSE 0, Abs(n), 1)

StrictSub(w, a, b) == StrictAdd(w, a, Neg(b))

StrictMul(w, a, b) ==
    IF IsNaN(a) \/ IsNaN(b) THEN NaN
    ELSE IF (IsInf(a) /\ IsZero(b)) \/ (IsZero(a) /\ IsInf(b)) THEN NaN
    ELSE IF IsInf(a) \/ IsInf(b) THEN Inf(Xor(a.s, b.s))
    ELSE Round(w, Xor(a.s, b.s), a.m * b.m, Pow(2, FracBits))

StrictDiv(w, a, b) ==
    IF IsNaN(a) \/ IsNaN(b) THEN NaN
    ELSE IF (IsInf(a) /\ IsInf(b)) \/ (IsZero(a) /\ IsZero(b)) THEN NaN
    ELSE IF IsInf(a) \/ IsZero(b) THEN Inf(Xor(a.s, b.s))
    ELSE IF IsInf(b) THEN Fin(Xor(a.s, b.s), 0)
    ELSE Round(w, Xor(a.s, b.s), a.m * Pow(2, FracBits), b.m)

StrictRem(w, a, b) ==
    IF IsNaN(a) \/ IsNaN(b) \/ IsInf(a) \/ IsZero(b) THEN NaN
    ELSE IF IsInf(b) THEN a
    ELSE Fin(a.s, a.m % b.m)

Ops == {"add", "sub", "mul", "div", "rem"}

Strict(op, w, a, b) ==
    CASE op = "add" -> StrictAdd(w, a, b)
      [] op = "sub" -> StrictSub(w, a, b)
      [] op = "mul" -> StrictMul(w, a, b)
      [] op = "div" -> StrictDiv(w, a, b)
      [] op = "rem" -> StrictRem(w, a, b)

\* a == b and a < b of the raw type (IEEE comparison)
FloatEq(a, b) ==
    /\ ~IsNaN(a) /\ ~IsNaN(b)
    /\ \/ a = b
       \/ IsZero(a) /\ IsZero(b)

Key(a) == IF IsInf(a) THEN (IF a.s = 1 THEN 0 - (MaxMag(64) + 1) ELSE MaxMag(64) + 1)
          ELSE Signed(a)

FloatLt(a, b) == ~IsNaN(a) /\ ~IsNaN(b) /\ Key(a) < Key(b)

FloatLe(a, b) == ~IsNaN(a) /\ ~IsNaN(b) /\ Key(a) <= Key(b)

\* f32::partial_cmp / f64::partial_cmp of the raw type
FloatPartialCmp(a, b) ==
    CASE FloatLe(a, b) /\ FloatLe(b, a)   -> "Equal"
      [] FloatLe(a, b) /\ ~FloatLe(b, a)  -> "Less"
      [] ~FloatLe(a, b) /\ FloatLe(b, a)  -> "Greater"
      [] OTHER                            -> "None"

(***************************************************************************)
(* The formatters of the raw type (fmt::Debug, Display, LowerExp,          *)
(* UpperExp for f32 / f64), on the decimal expansion of the value.         *)
(***************************************************************************)
Formats == {"Debug", "Display", "LowerExp", "UpperExp"}

DigitChars == <<"0", "1", "2", "3", "4", "5", "6", "7", "8", "9">>

RECURSIVE DecStr(_)
DecStr(n) == IF n < 10 THEN DigitChars[n + 1]
             ELSE DecStr(n \div 10) \o DigitChars[(n % 10) + 1]

\* n written with exactly k digits (leading zeros kept)
RECURSIVE PadStr(_, _)
PadStr(n, k) == IF k = 0 THEN "" ELSE PadStr(n \div 10, k - 1) \o DigitChars[(n % 10) + 1]

\* number of trailing decimal zeros of n > 0
RECURSIVE TrailingZeros(_)
TrailingZeros(n) == IF n % 10 # 0 THEN 0 ELSE 1 + TrailingZeros(n \div 10)

RECURSIVE NumDigits(_)
NumDigits(n) == IF n < 10 THEN 1 ELSE 1 + NumDigits(n \div 10)

\* the fractional digits of m units, trailing zeros dropped ("" for an integer)
FracStr(m) ==
    LET f == (m % Pow(2, FracBits)) * Pow(5, FracBits)
    IN  IF f = 0 THEN ""
        ELSE PadStr(f \div Pow(10, TrailingZeros(f)), FracBits - TrailingZeros(f))

\* plain decimal: "1.5", "3"; alt prints ".0" after an integer (Debug)
DecimalStr(m, alt) ==
    LET int  == DecStr(m \div Pow(2, FracBits))
        frac == FracStr(m)
    IN  IF frac # "" THEN int \o "." \o frac
        ELSE IF alt THEN int \o ".0" ELSE int

SignedDec(n) == IF n < 0 THEN "-" \o DecStr(0 - n) ELSE DecStr(n)

\* scientific: "1.5e0", "5e-1"; e is the exponent marker
ExpStr(m, e) ==
    IF m = 0 THEN "0" \o e \o "0"
    ELSE LET n    == m * Pow(5, FracBits)
             t    == TrailingZeros(n)
             sig  == n \div Pow(10, t)
             nd   == NumDigits(sig)
             lead == sig \div Pow(10, nd - 1)
             rest == sig % Pow(10, nd - 1)
             mant == IF nd = 1 THEN DecStr(lead)
                     ELSE DecStr(lead) \o "." \o PadStr(rest, nd - 1)
         IN  mant \o e \o SignedDec((nd - 1) + t - FracBits)

FloatFmt(name, v) ==
    IF IsNaN(v) THEN "NaN"
    ELSE LET sign == IF v.s = 1 THEN "-" ELSE ""
         IN  IF IsInf(v) THEN sign \o "inf"
             ELSE CASE name = "Debug"    -> sign \o DecimalStr(v.m, TRUE)
                    [] name = "Display"  -> sign \o DecimalStr(v.m, FALSE)
                    [] name = "LowerExp" -> sign \o ExpStr(v.m, "e")
                    [] name = "UpperExp" -> sign \o ExpStr(v.m, "E")

(***************************************************************************)
(* The relaxed intrinsics (lib.rs:31).  The crate documents that they      *)
(* carry LLVM's "fast" flag, which enables all float flags (lib.rs:17-18): *)
(*   nnan, ninf  a NaN or infinite operand or result makes the result      *)
(*               poison: any value of the type;                            *)
(*   nsz         the sign of a zero result is not significant;             *)
(*   arcp        a / b may be computed as a * (1 / b);                     *)
(*   reassoc     chains of operations may be re-associated (see the fold   *)
(*               of the example consumer below).                           *)
(* Each intrinsic is the set of results a build can produce.               *)
(***************************************************************************)
Poison(w) == Floats(w)

NoSignedZeros(r) == IF IsZero(r) THEN {PosZero, NegZero} ELSE {r}

\* the operands and the strict result are finite: nnan / ninf assume nothing false
WellDefined(op, w, a, b) ==
    IsFinite(a) /\ IsFinite(b) /\ IsFinite(Strict(op, w, a, b))

fadd_fast(w, a, b) ==
    IF WellDefined("add", w, a, b) THEN NoSignedZeros(StrictAdd(w, a, b)) ELSE Poison(w)

fsub_fast(w, a, b) ==
    IF WellDefined("sub", w, a, b) THEN NoSignedZeros(StrictSub(w, a, b)) ELSE Poison(w)

fmul_fast(w, a, b) ==
    IF WellDefined("mul", w, a, b) THEN NoSignedZeros(StrictMul(w, a, b)) ELSE Poison(w)

\* a * (1 / b), the form of a / b that arcp allows
Reciprocal(w, a, b) ==
    LET p == StrictMul(w, a, StrictDiv(w, One, b))
    IN  IF IsFinite(p) THEN NoSignedZeros(p) ELSE Poison(w)

fdiv_fast(w, a, b) ==
    IF WellDefined("div", w, a, b)
    THEN NoSignedZeros(StrictDiv(w, a, b)) \cup Reciprocal(w, a, b)
    ELSE Poison(w)

\* a remainder that panics on a zero divisor, as the integer one does: no result
frem_checked(w, a, b) ==
    IF IsZero(b) THEN {}
    ELSE IF WellDefined("rem", w, a, b) THEN NoSignedZeros(StrictRem(w, a, b))
    ELSE Poison(w)

frem_fast(w, a, b) ==
    IF WellDefined("rem", w, a, b) THEN NoSignedZeros(StrictRem(w, a, b)) ELSE Poison(w)

\* the table of impl_op! with one row miswired: Sub built on fadd_fast
intrins_miswired(op, w, a, b) ==
    CASE op = "add" -> fadd_fast(w, a, b)
      [] op = "sub" -> fadd_fast(w, a, b)
      [] op = "mul" -> fmul_fast(w, a, b)
      [] op = "div" -> fdiv_fast(w, a, b)
      [] op = "rem" -> frem_fast(w, a, b)

\* lib.rs:168-174: the intrinsic each operator trait is instantiated with
intrins(op, w, a, b) ==
    CASE op = "add" -> fadd_fast(w, a, b)
      [] op = "sub" -> fsub_fast(w, a, b)
      [] op = "mul" -> fmul_fast(w, a, b)
      [] op = "div" -> fdiv_fast(w, a, b)
      [] op = "rem" -> frem_fast(w, a, b)

(***************************************************************************)
(* The wrapper: pub struct Fast<F>(F), a tuple struct of one field.        *)
(***************************************************************************)
Fast(f) == <<f>>

\* a constructor that validates: a NaN or an infinity is replaced by 0.0
new_checked(value) == <<IF value.k = "fin" THEN value ELSE [k |-> "fin", s |-> 0, m |-> 0]>>

\* Fast::new (lib.rs:85-87)
new(value) == Fast(value)

\* a conversion that validates where the constructor does not
from_checked(f) == <<IF f.k = "fin" THEN f ELSE [k |-> "fin", s |-> 0, m |-> 0]>>

\* From<F> for Fast<F> (lib.rs:62-67)
from(f) == Fast(f)

\* Deref::deref (lib.rs:48-50): &self.0
deref(self) == self[1]

\* a deref_mut that hands out a reference to a copy: the store is lost
deref_mut_copy(self, v) == self

\* DerefMut::deref_mut (lib.rs:55-57): self after v is stored through &mut self.0
deref_mut(self, v) == [self EXCEPT ![1] = v]

\* an equality on the stored bits instead of the float comparison
eq_bitwise(self, other) == self = other

\* derive(PartialEq) on Fast (lib.rs:40): self.0 == other.0
eq(self, other) == FloatEq(self[1], other[1])

\* derive(PartialOrd) on Fast (lib.rs:40): self.0.partial_cmp(&other.0)
partial_cmp(self, other) == FloatPartialCmp(self[1], other[1])

lt(self, other) == partial_cmp(self, other) = "Less"

\* Fast<F> op F (lib.rs:94-112): the results of Fast($intrins(self.0, rhs))
fast_op_raw(op, w, self, rhs) == { Fast(r) : r \in intrins(op, w, self[1], rhs) }

\* the raw-op-wrapped form with the operands exchanged: rhs.$method(self)
raw_op_fast_swapped(op, w, self, rhs) == { <<r>> : r \in intrins(op, w, rhs[1], self) }

\* F op Fast<F> (lib.rs:115-129): Fast(self).$method(rhs.0)
raw_op_fast(op, w, self, rhs) == fast_op_raw(op, w, Fast(self), rhs[1])

\* Fast<F> op Fast<F> (lib.rs:132-146): self.$method(rhs.0)
fast_op_fast(op, w, self, rhs) == fast_op_raw(op, w, self, rhs[1])

Shapes == {"fast_raw", "raw_fast", "fast_fast"}

\* the expression "a op b" with the operands wrapped as the shape says
binop(shape, op, w, a, b) ==
    CASE shape = "fast_raw"  -> fast_op_raw(op, w, Fast(a), b)
      [] shape = "raw_fast"  -> raw_op_fast(op, w, a, Fast(b))
      [] shape = "fast_fast" -> fast_op_fast(op, w, Fast(a), Fast(b))

\* an in-place form with the operands exchanged: *self = rhs.$opmth(*self)
assignop_swapped(shape, op, w, self, b) == { <<r>> : r \in intrins(op, w, b, self[1]) }

RhsShapes == {"fast_raw", "fast_fast"}

\* x op= rhs (lib.rs:155-162): the values of *self after *self = (*self).$opmth(rhs)
assignop(shape, op, w, self, b) ==
    CASE shape = "fast_raw"  -> fast_op_raw(op, w, self, b)
      [] shape = "fast_fast" -> fast_op_fast(op, w, self, Fast(b))

\* what derive(Debug) would print for the tuple struct
fmt_derived(name, self) ==
    IF name = "Debug" THEN "Fast(" \o FloatFmt(name, self[1]) \o ")"
    ELSE FloatFmt(name, self[1])

\* fmt::$name for Fast<F> (lib.rs:188-192): self.0.fmt(f)
fmt(name, self) == FloatFmt(name, self[1])

(***************************************************************************)
(* A caller of the crate, as in the crate's tests (lib.rs:203-250): one    *)
(* instantiation of width w, a wrapped binding x, a raw binding y used as  *)
(* the right operand, and one statement at a time on them.                 *)
(***************************************************************************)
VARIABLES
    w,      \* the width of the instantiation: 32 (FF32) or 64 (FF64)
    x,      \* let mut x: Fast<F>
    y,      \* let y: F
    pc,     \* "ready", "called" (an expression was evaluated), "compared"
    call,   \* the expression evaluated last, its operands and its result
    xs,     \* sums.rs: the slice given to fast_sum / regular_sum
    terms,  \* sums.rs: the wrapped terms of the fold not yet added up
    fpc,    \* sums.rs: "off", "fold", "done"
    sum     \* sums.rs: the f64 that fast_sum returns

vars == <<w, x, y, pc, call, xs, terms, fpc, sum>>

foldVars == <<xs, terms, fpc, sum>>

NoFloat == [k |-> "none", s |-> 0, m |-> 0]

NoCall == [name |-> "none", op |-> "none", shape |-> "none", a |-> NoFloat,
           val |-> NoFloat, txt |-> "", flag |-> FALSE]

\* let mut x = Fast::new(0.) (as sums.rs:9); let y = <any raw value>
Init ==
    /\ w \in Widths
    /\ x = new(PosZero)
    /\ y \in Floats(w)
    /\ pc = "ready"
    /\ call = NoCall
    /\ xs = <<>> /\ terms = <<>> /\ fpc = "off" /\ sum = NoFloat

\* x = unsafe { Fast::new(v) }
New(v) ==
    /\ pc = "ready"
    /\ x' = new(v)
    /\ call' = [NoCall EXCEPT !.name = "new", !.a = v]
    /\ pc' = "called"
    /\ UNCHANGED <<w, y, foldVars>>

\* x = v.into()
From(v) ==
    /\ pc = "ready"
    /\ x' = from(v)
    /\ call' = [NoCall EXCEPT !.name = "from", !.a = v]
    /\ pc' = "called"
    /\ UNCHANGED <<w, y, foldVars>>

\* *x = v
DerefMut(v) ==
    /\ pc = "ready"
    /\ x' = deref_mut(x, v)
    /\ call' = [NoCall EXCEPT !.name = "deref_mut", !.a = v]
    /\ pc' = "called"
    /\ UNCHANGED <<w, y, foldVars>>

\* let val = *x, after the store into x that call.a went to (call.op names it), or
\* after another read of x
Deref ==
    /\ \/ pc = "called" /\ call.name \in {"new", "from", "deref_mut"}
       \/ pc = "compared" /\ call.name = "deref"
    /\ call' = [call EXCEPT !.name = "deref", !.val = deref(x),
                            !.op = IF call.name = "deref" THEN call.op ELSE call.name]
    /\ pc' = "compared"
    /\ UNCHANGED <<w, x, y, foldVars>>

\* let val = *x op y; x = x op y: the operator of the raw type, then the operator
\* of the crate with the operands wrapped as the shape says (as lib.rs:206 has both)
BinOp(op, shape) ==
    /\ pc = "ready"
    /\ x' \in binop(shape, op, w, deref(x), y)
    /\ call' = [NoCall EXCEPT !.name = "binop", !.op = op, !.shape = shape,
                              !.val = Strict(op, w, deref(x), y)]
    /\ pc' = "called"
    /\ UNCHANGED <<w, y, foldVars>>

\* let val = *x op y; x op= y or x op= Fast(y) (as lib.rs:219-221)
AssignOp(op, shape) ==
    /\ pc = "ready"
    /\ x' \in assignop(shape, op, w, x, y)
    /\ call' = [NoCall EXCEPT !.name = "assign", !.op = op, !.shape = shape,
                              !.val = Strict(op, w, deref(x), y)]
    /\ pc' = "called"
    /\ UNCHANGED <<w, y, foldVars>>

\* format!("{:?}", x), "{}", "{:e}", "{:E}"
Fmt(name) ==
    /\ pc = "ready"
    /\ call' = [NoCall EXCEPT !.name = "fmt", !.op = name, !.txt = fmt(name, x)]
    /\ pc' = "called"
    /\ UNCHANGED <<w, x, y, foldVars>>

\* x == Fast(y)
PartialEq ==
    /\ pc = "ready"
    /\ call' = [NoCall EXCEPT !.name = "eq", !.flag = eq(x, Fast(y))]
    /\ pc' = "called"
    /\ UNCHANGED <<w, x, y, foldVars>>

\* x.partial_cmp(&Fast(y)) and x < Fast(y)
PartialOrd ==
    /\ pc = "ready"
    /\ call' = [NoCall EXCEPT !.name = "partial_cmp", !.txt = partial_cmp(x, Fast(y)),
                              !.flag = lt(x, Fast(y))]
    /\ pc' = "called"
    /\ UNCHANGED <<w, x, y, foldVars>>

\* the statement ends; its temporaries go out of scope
EndStatement ==
    /\ pc \in {"called", "compared"}
    /\ pc' = "ready"
    /\ call' = NoCall
    /\ UNCHANGED <<w, x, y, foldVars>>

Next ==
    \/ \E v \in Floats(w) : New(v)
    \/ \E v \in Floats(w) : From(v)
    \/ \E v \in Floats(w) : DerefMut(v)
    \/ Deref
    \/ \E op \in Ops, shape \in Shapes : BinOp(op, shape)
    \/ \E op \in Ops, shape \in RhsShapes : AssignOp(op, shape)
    \/ \E name \in Formats : Fmt(name)
    \/ PartialEq
    \/ PartialOrd
    \/ EndStatement

Spec == Init /\ [][Next]_vars

(***************************************************************************)
(* The example consumer (sums.rs): fast_sum folds the slice into a wrapped *)
(* accumulator with the + of the crate, regular_sum folds it with the + of *)
(* f64.  fadd_fast carries reassoc, and every + of the fold is inlined     *)
(* into one chain: a build may add the terms Fast(0.), Fast(xs[0]), ...    *)
(* in any order and association (this is what lets it vectorise the sum).  *)
(* The fold is therefore a collection of wrapped terms of which any two    *)
(* are added at each step; the order of the source, ((0 + xs[0]) + xs[1])  *)
(* + ..., is one of its runs.                                              *)
(***************************************************************************)
\* longest slice
MaxLen == 3

\* the elements a slice is drawn from: the zeros and, of either sign, the
\* smallest and the largest finite magnitude of f64
FoldInputs == { Fin(s, m) : s \in {0, 1}, m \in {0, 1, MaxMag(64)} }

Slices == UNION { [1 .. n -> FoldInputs] : n \in 0 .. MaxLen }

InitFold ==
    /\ w = 64
    /\ x = new(PosZero)
    /\ y = PosZero
    /\ pc = "ready"
    /\ call = NoCall
    /\ xs \in Slices
    /\ terms = EmptyBag
    /\ fpc = "start"
    /\ sum = NoFloat

\* the closure of the fold, |acc, x| acc + x, with a * instead of the +
fold_mul(acc, elem) == { <<r>> : r \in intrins("mul", 64, acc[1], elem[1]) }

\* sums.rs:9: the closure of the fold, |acc, x| acc + x
fold_add(acc, elem) == fast_op_fast("add", 64, acc, elem)

\* sums.rs:7-9: xs.iter().map(|&x| Fast::new(x)) and the initial Fast::new(0.)
FastSumStart ==
    /\ fpc = "start"
    /\ terms' = SetToBag({new(PosZero)})
                  (+) BagOfAll(LAMBDA i : new(xs[i]), SetToBag(1 .. Len(xs)))
    /\ fpc' = "fold"
    /\ UNCHANGED <<w, x, y, pc, call, xs, sum>>

\* one + of the fold: two of the terms are replaced by their sum
FastSumAdd ==
    /\ fpc = "fold"
    /\ \E s \in BagToSet(terms), t \in BagToSet(terms) :
          /\ s # t \/ CopiesIn(s, terms) >= 2
          /\ \E r \in fold_add(s, t) :
                terms' = ((terms (-) SetToBag({s})) (-) SetToBag({t})) (+) SetToBag({r})
    /\ UNCHANGED <<w, x, y, pc, call, xs, fpc, sum>>

\* sums.rs:7: the accumulator is dereferenced and returned
FastSumReturn ==
    /\ fpc = "fold"
    /\ BagCardinality(terms) = 1
    /\ \E acc \in BagToSet(terms) : sum' = deref(acc)
    /\ fpc' = "done"
    /\ UNCHANGED <<w, x, y, pc, call, xs, terms>>

NextFold == FastSumStart \/ FastSumAdd \/ FastSumReturn

SpecFold == InitFold /\ [][NextFold]_vars

\* sums.rs:19-21: xs.iter().map(|&x| x).fold(0., |acc, x| acc + x)
RECURSIVE regular_fold(_, _)
regular_fold(acc, slice) ==
    IF slice = <<>> THEN acc
    ELSE regular_fold(StrictAdd(64, acc, Head(slice)), Tail(slice))

regular_sum(slice) == regular_fold(PosZero, slice)

(***************************************************************************)
(* Properties of the wrapper and of its operators.                         *)
(***************************************************************************)
Two == StrictAdd(64, One, One)

Wrapped(width) == { Fast(v) : v \in Floats(width) }

\* a x (1 / b), with 1 / b rounded, is the same value as a / b
ReciprocalAgrees(width, a, b) ==
    FloatEq(StrictMul(width, a, StrictDiv(width, One, b)), StrictDiv(width, a, b))

\* finite operands with a finite strict result which, for a division, the
\* reciprocal form shares
ExactCase(op, width, a, b) ==
    /\ IsFinite(a) /\ IsFinite(b) /\ IsFinite(Strict(op, width, a, b))
    /\ op = "div" => ReciprocalAgrees(width, a, b)

\* C1 as stated: for all finite raw a and b and each operator,
\* Fast(a) op Fast(b) == Fast(a op b), a op b being the operator of the raw type.
C1_AllFinite ==
    [][(/\ call'.name = "binop" /\ call'.shape = "fast_fast"
        /\ IsFinite(deref(x)) /\ IsFinite(y))
       => eq(x', Fast(Strict(call'.op, w, deref(x), y)))]_vars

\* C1, amended: for all finite raw a and b whose strict a op b is finite (and,
\* for a division, equal to a x (1 / b)), Fast(a) op Fast(b) == Fast(a op b).
C1_FiniteResult ==
    [][(/\ call'.name = "binop" /\ call'.shape = "fast_fast"
        /\ ExactCase(call'.op, w, deref(x), y))
       => eq(x', Fast(Strict(call'.op, w, deref(x), y)))]_vars

\* Fast(2.) / Fast(1.) was evaluated and gave Fast(2.) (lib.rs:206, 213)
C1_Witness ==
    /\ call.name = "binop" /\ call.shape = "fast_fast" /\ call.op = "div"
    /\ y = One /\ call.val = Two /\ x = Fast(Two)

\* C2 as stated: for every operator and all raw a and b the three operand shapes
\* give equal results: Fast(a) op b == a op Fast(b) == Fast(a) op Fast(b).
C2_AllShapesEqual ==
    [][call'.name = "binop"
       => \A shape \in Shapes :
             \A r \in binop(shape, call'.op, w, deref(x), y) : eq(x', r)]_vars

\* C2, amended: in every shape the result is a result of the wrapped-op-raw form
\* on the same operands, the left one staying on the left; and for finite a and b
\* with a finite strict result the three shapes give equal results.
C2_Delegation ==
    [][call'.name = "binop"
       => /\ x' \in fast_op_raw(call'.op, w, x, y)
          /\ ExactCase(call'.op, w, deref(x), y)
             => \A shape \in Shapes :
                   \A r \in binop(shape, call'.op, w, deref(x), y) : eq(x', r)]_vars

\* a - Fast(y) was evaluated on a non-zero y and gave the non-zero a - y
C2_Witness ==
    /\ call.name = "binop" /\ call.shape = "raw_fast" /\ call.op = "sub"
    /\ IsFinite(y) /\ ~IsZero(y)
    /\ IsFinite(call.val) /\ ~IsZero(call.val) /\ x = Fast(call.val)

\* C3 as stated: for all a and b, after x = Fast(a); x op= rhs the value of x
\* equals Fast(a) op Fast(b).
C3_AllEqual ==
    [][call'.name = "assign"
       => \A r \in fast_op_fast(call'.op, w, x, Fast(y)) : eq(x', r)]_vars

\* C3, amended: x op= rhs stores in x a result of the binary operator on the old
\* value of x and rhs; for finite a and b with a finite strict result, x then
\* equals Fast(a) op Fast(b).
C3_StoresBinop ==
    [][call'.name = "assign"
       => /\ x' \in fast_op_fast(call'.op, w, x, Fast(y))
          /\ ExactCase(call'.op, w, deref(x), y)
             => \A r \in fast_op_fast(call'.op, w, x, Fast(y)) : eq(x', r)]_vars

\* x = Fast(1.); x -= Fast(2.) left Fast(-1.) in x (lib.rs:230)
C3_Witness ==
    /\ call.name = "assign" /\ call.shape = "fast_fast" /\ call.op = "sub"
    /\ y = Two /\ call.val = Neg(One) /\ x = Fast(Neg(One))

\* C4: *Fast::new(v) is exactly v, for every v, NaN and the infinities included.
C4_RoundTrip ==
    (call.name = "deref" /\ call.op = "new") => call.val = call.a

\* *Fast::new(NaN) was read
C4_Witness ==
    call.name = "deref" /\ call.op = "new" /\ IsNaN(call.a) /\ IsNaN(call.val)

\* C5: Fast::from(v) and Fast::new(v) are the same stored representation.
C5_ConversionSame ==
    /\ call.name = "from" => x = new(call.a)
    /\ call.name = "new"  => x = from(call.a)

\* Fast::from(-0.0) was evaluated
C5_Witness ==
    call.name = "from" /\ call.a = NegZero /\ x = Fast(NegZero)

\* C6: in each of the four forms, formatting Fast(v) gives what formatting v gives.
C6_FormatIdentity ==
    call.name = "fmt" => call.txt = FloatFmt(call.op, deref(x))

\* format!("{:e}", Fast(-inf)) was evaluated
C6_Witness ==
    call.name = "fmt" /\ call.op = "LowerExp" /\ x = Fast(Inf(1)) /\ call.txt = "-inf"

\* C7: every operation is total: x always holds a wrapped value, and whatever x
\* and y hold when a statement starts, each operator in each shape and each
\* compound assignment has a result, a wrapped value, and so have construction,
\* conversion, access and formatting.
C7_Total ==
    /\ x \in Wrapped(w)
    /\ pc = "ready"
       => /\ \A op \in Ops, shape \in Shapes :
                /\ binop(shape, op, w, deref(x), y) # {}
                /\ binop(shape, op, w, deref(x), y) \subseteq Wrapped(w)
          /\ \A op \in Ops, shape \in RhsShapes :
                /\ assignop(shape, op, w, x, y) # {}
                /\ assignop(shape, op, w, x, y) \subseteq Wrapped(w)
          /\ new(y) \in Wrapped(w) /\ from(y) \in Wrapped(w)
          /\ deref(x) \in Floats(w) /\ deref_mut(x, y) \in Wrapped(w)
          /\ \A name \in Formats : fmt(name, x) \in STRING

\* x %= 0 was evaluated on a NaN or infinite x
C7_Witness ==
    /\ call.name = "assign" /\ call.op = "rem" /\ IsZero(y) /\ IsNaN(call.val)
    /\ x \in Wrapped(w)

\* C8: a store through deref_mut is what x then holds and what deref then reads.
C8_WriteThrough ==
    /\ call.name = "deref_mut" => x = Fast(call.a)
    /\ (call.name = "deref" /\ call.op = "deref_mut") => call.val = call.a

\* *x = -inf; then *x was read
C8_Witness ==
    call.name = "deref" /\ call.op = "deref_mut" /\ call.a = Inf(1) /\ call.val = Inf(1)

\* C10: == and < on wrapped values are == and < on the raw values.
C10_CompareAsRaw ==
    /\ call.name = "eq" => (call.flag <=> FloatEq(deref(x), y))
    /\ call.name = "partial_cmp"
       => /\ call.flag <=> FloatLt(deref(x), y)
          /\ call.txt = FloatPartialCmp(deref(x), y)

\* Fast(NaN) == Fast(NaN) was evaluated and is false
C10_Witness ==
    call.name = "eq" /\ IsNaN(deref(x)) /\ IsNaN(y) /\ ~call.flag

(***************************************************************************)
(* Properties of the fold of the example consumer.                         *)
(***************************************************************************)
AllFinite(slice) == \A i \in 1 .. Len(slice) : IsFinite(slice[i])

RECURSIVE SumUnits(_, _)
SumUnits(slice, idx) ==
    IF idx = {} THEN 0
    ELSE LET i == CHOOSE j \in idx : TRUE
         IN  Signed(slice[i]) + SumUnits(slice, idx \ {i})

\* the sum of every sub-collection of the slice is a value of f64: no addition,
\* in whatever order, rounds or overflows
SubSumsExact(slice) ==
    \A idx \in SUBSET (1 .. Len(slice)) : Abs(SumUnits(slice, idx)) \in Mags(64)

====
